---- MODULE Spec2Model ----
(***************************************************************************)
(* A model of REACConnection (src/REACConnection.cpp): the connection      *)
(* engine of the REAC audio-over-Ethernet driver.                          *)
(*                                                                         *)
(* The object's fields are the record `this`; the kernel objects it talks  *)
(* to (work loop, timer event source, interface filters, reference counts, *)
(* uptime clock) are the record `kern`; `last` is the most recent entry    *)
(* point with its input, its result and the calls it made out of the       *)
(* engine (callbacks, transmitted frames, log lines); `hist` observes the  *)
(* run.  Every method of the class is an operator from a world             *)
(* [this, kern, ev] to the world it leaves behind, so that a method that   *)
(* calls another (deinit calls stop, free calls deinit) is the composition *)
(* of the operators.                                                       *)
(*                                                                         *)
(* Times are in microseconds: the code computes in nanoseconds, and every  *)
(* time constant of the code is a whole number of microseconds.            *)
(***************************************************************************)
EXTENDS Integers, Sequences, FiniteSets, TLC

VARIABLES this, kern, last, hist, run

vars == <<this, kern, last, hist, run>>

-----------------------------------------------------------------------------
(* Bounds of the model *)

\* scheduler firings counted by connectionCounter: the timer stops there
MaxFirings == 5
\* calls of start() that reach iflt_attach (each attaches a new filter)
MaxStarts == 2
\* saturation of the observers that count callbacks
MaxRun == 2
\* a small lateness of a scheduler firing, in microseconds
Jitter == 1

-----------------------------------------------------------------------------
(* Program constants *)

REAC_CONNECTION_CHECK_TIMEOUT_MS == 400
REAC_TIMEOUT_UNTIL_DISCONNECT == 1000
\* microseconds in a millisecond (the code: 1000000 nanoseconds)
UnitsPerMs == 1000
IN_CHANNELS == 16
OUT_CHANNELS == 8
\* REACConnection.h / REACConstants.h are not part of the sources at hand
REAC_PACKETS_PER_SECOND == 8000
REAC_SAMPLES_PER_PACKET == 12
REAC_RESOLUTION == 3
SizeofEthernetHeader == 14
SizeofREACPacketHeader == 36
SizeofENDING == 2

Modes == {"REAC_MASTER", "REAC_SLAVE"}

Resources ==
    {"workLoop", "filterCommandGate", "timerEventSource", "dataStream",
     "deviceInfo", "interface"}

-----------------------------------------------------------------------------
(* Worlds *)

\* OSObject::operator new zero-fills the object: every pointer NULL, every flag false
ZeroObject ==
    [ workLoop |-> FALSE, filterCommandGate |-> FALSE, timerEventSource |-> FALSE,
      dataStream |-> FALSE, deviceInfo |-> FALSE, interface |-> FALSE,
      connectionCallback |-> FALSE, samplesCallback |-> FALSE,
      getSamplesCallback |-> FALSE,
      mode |-> "unset", started |-> FALSE, connected |-> FALSE,
      connectionCounter |-> 0, lastSeenConnectionCounter |-> 0, lastCounter |-> 0,
      timeoutNS |-> 0, nextTime |-> 0, filterRef |-> 0 ]

KernInit ==
    [ life |-> "new",
      acq |-> [r \in Resources |-> 0], rel |-> [r \in Resources |-> 0],
      uar |-> {},
      gateAdded |-> FALSE, timerAdded |-> FALSE,
      timerArmed |-> FALSE, timerWrapped |-> FALSE, timerDeadline |-> 0,
      filters |-> {}, staleDetach |-> FALSE, nextRef |-> 1,
      uptime |-> 0 ]

World(t, k) == [this |-> t, kern |-> k, ev |-> <<>>, ret |-> TRUE]

Return(w, r) == [w EXCEPT !.ret = r]

Emit(w, e) == [w EXCEPT !.ev = Append(@, e)]

\* a reference or an allocation taken
Acquire(w, r) == [w EXCEPT !.kern.acq[r] = @ + 1]

\* a call through a pointer: a use after release when the engine holds nothing of r
Use(w, r) ==
    IF w.kern.rel[r] >= w.kern.acq[r] /\ w.kern.rel[r] > 0
    THEN [w EXCEPT !.kern.uar = @ \cup {r}]
    ELSE w

Release(w, r) == [Use(w, r) EXCEPT !.kern.rel[r] = @ + 1]

-----------------------------------------------------------------------------
(* The kernel objects the engine calls *)

\* IOWorkLoop::addEventSource(timerEventSource)
addTimerEventSource(w) == [Use(w, "workLoop") EXCEPT !.kern.timerAdded = TRUE]

\* IOWorkLoop::removeEventSource(timerEventSource)
removeTimerEventSource(w) == [Use(w, "workLoop") EXCEPT !.kern.timerAdded = FALSE]

\* IOWorkLoop::removeEventSource(filterCommandGate)
removeCommandGate(w) == [Use(w, "workLoop") EXCEPT !.kern.gateAdded = FALSE]

\* IOTimerEventSource::cancelTimeout
cancelTimeout(w) ==
    [Use(w, "timerEventSource") EXCEPT !.kern.timerArmed = FALSE,
                                       !.kern.timerWrapped = FALSE]

\* IOTimerEventSource::setTimeout(UInt64 interval).  The argument is unsigned: a
\* negative sum s reaches the timer as 2^64 + s (timerWrapped).
setTimeout(w, interval) ==
    [Use(w, "timerEventSource") EXCEPT
        !.kern.timerArmed = TRUE,
        !.kern.timerWrapped = (interval < 0),
        !.kern.timerDeadline = w.kern.uptime + interval]

\* iflt_attach, when it succeeds: a new filter reference
iflt_attach(w) ==
    [w EXCEPT !.kern.filters = @ \cup {w.kern.nextRef},
              !.kern.nextRef = @ + 1,
              !.this.filterRef = w.kern.nextRef]

iflt_detach(w, ref) ==
    IF ref \in w.kern.filters
    THEN [w EXCEPT !.kern.filters = @ \ {ref}]
    ELSE [w EXCEPT !.kern.staleDetach = TRUE]

-----------------------------------------------------------------------------
(* REACConnection: life cycle *)

isConnected(w) == w.this.connected

\* connectionCallback(this, &cookieA, &cookieB, device), behind its NULL check
connectionCallback(w, device) ==
    IF w.this.connectionCallback
    THEN Emit(w, [e |-> "connectionCallback", arg |-> device])
    ELSE w

\* lines 197-200
stopTimer(w) ==
    IF w.this.timerEventSource THEN removeTimerEventSource(cancelTimeout(w)) ELSE w

\* lines 202-207: "Announce disconnect"
announceDisconnect(w) ==
    IF isConnected(w) THEN connectionCallback(w, "NULL") ELSE w

\* lines 209-210
detachFilter(w) == [iflt_detach(w, w.this.filterRef) EXCEPT !.this.started = FALSE]

\* stop() without its `started` guard
stop_unguarded(w) == detachFilter(announceDisconnect(stopTimer(w)))

stop(w) ==
    IF w.this.started THEN detachFilter(announceDisconnect(stopTimer(w))) ELSE w

\* lines 124-127
releaseDataStream(w) ==
    IF w.this.dataStream
    THEN [Release(w, "dataStream") EXCEPT !.this.dataStream = FALSE]
    ELSE w

\* lines 129-131: the pointer is left as it was
freeDeviceInfo(w) == IF w.this.deviceInfo THEN Release(w, "deviceInfo") ELSE w

\* lines 133-137
releaseCommandGate(w) ==
    IF w.this.filterCommandGate
    THEN [Release(removeCommandGate(w), "filterCommandGate")
              EXCEPT !.this.filterCommandGate = FALSE]
    ELSE w

\* lines 139-141: the pointer is left as it was
releaseWorkLoop(w) == IF w.this.workLoop THEN Release(w, "workLoop") ELSE w

\* lines 143-148
releaseTimerEventSource(w) ==
    IF w.this.timerEventSource
    THEN [Release(removeTimerEventSource(cancelTimeout(w)), "timerEventSource")
              EXCEPT !.this.timerEventSource = FALSE]
    ELSE w

\* lines 150-153
releaseInterface(w) ==
    IF w.this.interface
    THEN [Release(w, "interface") EXCEPT !.this.interface = FALSE]
    ELSE w

deinit(w) ==
    releaseInterface(releaseTimerEventSource(releaseWorkLoop(
        releaseCommandGate(freeDeviceInfo(releaseDataStream(stop(w)))))))

free(w) == [deinit(w) EXCEPT !.kern.life = "freed"]

\* the places where initWithInterface can fail
InitFailures ==
    {"workLoop", "commandGate", "addEventSource", "timerEventSource",
     "dataStream", "deviceInfo"}

TimeoutNS(mode) ==
    IF mode = "REAC_MASTER"
    THEN (1000 * UnitsPerMs) \div REAC_PACKETS_PER_SECOND
    ELSE REAC_CONNECTION_CHECK_TIMEOUT_MS * UnitsPerMs

\* lines 35-36
retainWorkLoop(w) == [Acquire(w, "workLoop") EXCEPT !.this.workLoop = TRUE]

\* line 39
createCommandGate(w) ==
    [Acquire(w, "filterCommandGate") EXCEPT !.this.filterCommandGate = TRUE]

\* line 41, when it succeeds, and lines 47-48
addCommandGate(w) ==
    [Use(w, "workLoop") EXCEPT !.kern.gateAdded = TRUE,
                               !.this.connectionCounter = 0,
                               !.this.lastSeenConnectionCounter = 0]

\* line 49
createTimerEventSource(w) ==
    [Acquire(w, "timerEventSource") EXCEPT !.this.timerEventSource = TRUE]

\* line 55
createDataStream(w) == [Acquire(w, "dataStream") EXCEPT !.this.dataStream = TRUE]

\* lines 61-95
fillIn(w, args) ==
    [Acquire(Acquire(w, "deviceInfo"), "interface") EXCEPT
        !.this.deviceInfo = TRUE,
        !.this.started = FALSE,
        !.this.connected = FALSE,
        !.this.lastCounter = 0,
        !.this.connectionCallback = args.connectionCallback,
        !.this.samplesCallback = args.samplesCallback,
        !.this.getSamplesCallback = args.getSamplesCallback,
        !.this.mode = args.mode,
        !.this.interface = TRUE,
        !.this.timeoutNS = TimeoutNS(args.mode)]

\* lines 99-101
Fail(w) == Return(deinit(w), FALSE)

\* args: the mode and which of the three callbacks are not NULL;
\* failAt: "none", or the acquisition that fails
initWithInterface(w, args, failAt) ==
    CASE failAt = "workLoop" -> Fail(w)
      [] failAt = "commandGate" -> Fail(retainWorkLoop(w))
      [] failAt = "addEventSource" ->
            Fail(Use(createCommandGate(retainWorkLoop(w)), "workLoop"))
      [] failAt = "timerEventSource" ->
            Fail(addCommandGate(createCommandGate(retainWorkLoop(w))))
      [] failAt = "dataStream" ->
            Fail(createTimerEventSource(addCommandGate(createCommandGate(
                     retainWorkLoop(w)))))
      [] failAt = "deviceInfo" ->
            Fail(createDataStream(createTimerEventSource(addCommandGate(
                     createCommandGate(retainWorkLoop(w))))))
      [] OTHER ->
            Return(fillIn(createDataStream(createTimerEventSource(addCommandGate(
                       createCommandGate(retainWorkLoop(w))))), args), TRUE)

\* lines 114-118
releaseIfFailed(w) == IF ~w.ret THEN free(w) ELSE [w EXCEPT !.kern.life = "alive"]

\* new REACConnection (which can fail), initWithInterface, release() on failure
withInterface(w, args, failAt) ==
    IF failAt = "new" THEN Return([w EXCEPT !.kern.life = "null"], FALSE)
    ELSE releaseIfFailed(initWithInterface(w, args, failAt))

\* lines 169-174
armTimer(w) ==
    [setTimeout(w, w.this.timeoutNS) EXCEPT
        !.this.nextTime = w.kern.uptime + w.this.timeoutNS]

\* lines 186-192, when iflt_attach succeeds
attachFilter(w) == Return([iflt_attach(w) EXCEPT !.this.started = TRUE], TRUE)

\* addFails: workLoop->addEventSource fails; attachFails: iflt_attach fails
start(w, addFails, attachFails) ==
    IF ~w.this.timerEventSource THEN Return(w, FALSE)
    ELSE IF addFails THEN Return(Use(w, "workLoop"), FALSE)
    ELSE IF attachFails THEN Return(armTimer(addTimerEventSource(w)), FALSE)
    ELSE attachFilter(armTimer(addTimerEventSource(w)))

-----------------------------------------------------------------------------
(* REACConnection: the send half *)

\* REAC_SAMPLES_PER_PACKET*REAC_RESOLUTION*channels
SamplesSize(channels) == REAC_SAMPLES_PER_PACKET * REAC_RESOLUTION * channels

\* what getSamplesCallback can hand back: no buffer, a buffer of the packet's size,
\* a buffer of another size
GetSamplesResults ==
    { [buf |-> "NULL", size |-> 0],
      [buf |-> "buffer", size |-> SamplesSize(OUT_CHANNELS)],
      [buf |-> "buffer", size |-> SamplesSize(OUT_CHANNELS) - REAC_RESOLUTION] }

\* the headers REACDataStream::processPacket can fill in
OutHeaders == { [counter |-> 0], [counter |-> 65535] }

\* the calls of pushSamples that can fail
SendFaults ==
    {"none", "processPacket", "mbuf_allocpacket", "copyFromBufferToMbuf",
     "copyAudioFromBufferToMbuf", "zeroMbuf", "ifnet_output_raw"}

\* a call of pushSamples failed: the IOLog and the goto Done, result kIOReturnError
sendFailed(w, msg) ==
    Return(Emit(w, [e |-> "IOLog", msg |-> msg]), "kIOReturnError")

\* env: [samples: what getSamplesCallback returns, rph: the header processPacket
\* fills in, fault: the call that fails]
pushSamples(w, bufSize, sampleBuffer, env) ==
    LET samplesSize == SamplesSize(OUT_CHANNELS)
        sampleOffset == SizeofEthernetHeader + SizeofREACPacketHeader
        endingOffset == sampleOffset + samplesSize
        packetLen == endingOffset + SizeofENDING
        frame == [ len |-> packetLen,
                   type |-> "PROTOCOL",
                   header |-> env.rph,
                   samples |-> IF sampleBuffer # "NULL"
                               THEN [from |-> sampleBuffer, size |-> bufSize]
                               ELSE [from |-> "zero", size |-> samplesSize],
                   ending |-> "ENDING" ]
    IN
    IF ~(w.this.mode \in Modes) THEN Return(w, "kIOReturnInvalid")
    ELSE IF samplesSize = bufSize /\ sampleBuffer # "NULL"
    THEN Return(w, "kIOReturnBadArgument")
    ELSE IF env.fault = "processPacket"
    THEN sendFailed(Use(w, "dataStream"), "Failed to process packet data stream")
    ELSE IF env.fault = "mbuf_allocpacket"
    THEN sendFailed(Use(w, "dataStream"), "Failed to allocate packet mbuf")
    ELSE IF env.fault = "copyFromBufferToMbuf"
    THEN sendFailed(Use(w, "dataStream"), "Failed to copy REAC header to packet mbuf")
    ELSE IF sampleBuffer # "NULL" /\ env.fault = "copyAudioFromBufferToMbuf"
    THEN sendFailed(Use(w, "dataStream"), "Failed to copy sample data to packet mbuf")
    ELSE IF sampleBuffer = "NULL" /\ env.fault = "zeroMbuf"
    THEN sendFailed(Use(w, "dataStream"), "Failed to zero sample data in mbuf")
    ELSE IF env.fault = "ifnet_output_raw"
    THEN sendFailed(Use(Use(w, "dataStream"), "interface"), "Failed to send packet")
    ELSE Return(Emit(Use(Use(w, "dataStream"), "interface"),
                     [e |-> "ifnet_output_raw", frame |-> frame]),
                "kIOReturnSuccess")

getAndPushSamples(w, env) ==
    IF w.this.getSamplesCallback
    THEN pushSamples(Emit(w, [e |-> "getSamplesCallback", buf |-> env.samples.buf,
                              size |-> env.samples.size]),
                     env.samples.size, env.samples.buf, env)
    ELSE pushSamples(w, 0, "NULL", env)

-----------------------------------------------------------------------------
(* REACConnection: the scheduler *)

\* the liveness test of timerFired
IdleTooLong(t) ==
    (t.connectionCounter - t.lastSeenConnectionCounter) * t.timeoutNS
        > REAC_TIMEOUT_UNTIL_DISCONNECT * UnitsPerMs

\* lines 227-233
checkTimeout(w) ==
    IF IdleTooLong(w.this)
    THEN connectionCallback([w EXCEPT !.this.connected = TRUE], "NULL")
    ELSE w

\* lines 226-236
watchdog(w) ==
    IF isConnected(w)
    THEN [checkTimeout(w) EXCEPT !.this.connectionCounter = @ + 1]
    ELSE w

\* lines 238-240
masterSend(w, env) ==
    IF w.this.mode = "REAC_MASTER" THEN getAndPushSamples(w, env) ELSE w

\* lines 242-251; the clock read is w.kern.uptime
rearm(w) ==
    [setTimeout(w, w.this.timeoutNS + (w.this.nextTime - w.kern.uptime)) EXCEPT
        !.this.nextTime = @ + w.this.timeoutNS]

timerFired(w, env) == Return(rearm(masterSend(watchdog(w), env)), TRUE)

-----------------------------------------------------------------------------
(* REACConnection: the receive half *)

\* the length the receive half expects of the mbuf handed to the filter
InPacketLen == SizeofREACPacketHeader + SamplesSize(IN_CHANNELS) + 2

\* what samplesCallback can hand back: no buffer, a buffer of the packet's size,
\* a buffer of another size
SamplesResults ==
    { [buf |-> "NULL", size |-> 0],
      [buf |-> "buffer", size |-> SamplesSize(IN_CHANNELS)],
      [buf |-> "buffer", size |-> SamplesSize(IN_CHANNELS) + REAC_RESOLUTION] }

\* the lost-packet diagnostic without the exception for the counter's wrap
checkCounter_noWrap(w, counter) ==
    IF isConnected(w) /\ w.this.lastCounter + 1 # counter
    THEN Emit(w, [e |-> "IOLog", msg |-> "Lost packet"])
    ELSE w

\* lines 400-407: the lost-packet diagnostic
checkCounter(w, counter) ==
    IF isConnected(w) /\ w.this.lastCounter + 1 # counter
                      /\ ~(65535 = w.this.lastCounter /\ 0 = counter)
    THEN Emit(w, [e |-> "IOLog", msg |-> "Lost packet"])
    ELSE w

\* the connect announced at every valid packet
announceConnect_always(w) ==
    connectionCallback([w EXCEPT !.this.connected = TRUE], "deviceInfo")

\* the connect recorded and not announced
announceConnect_silent(w) ==
    IF ~isConnected(w) THEN [w EXCEPT !.this.connected = TRUE] ELSE w

\* lines 409-415: "Hack: Announce connect"
announceConnect(w) ==
    IF ~isConnected(w)
    THEN connectionCallback([w EXCEPT !.this.connected = TRUE], "deviceInfo")
    ELSE w

\* lines 422-440
deliverSamples(w, env) ==
    IF w.this.samplesCallback
    THEN Use(Emit(w, [e |-> "samplesCallback",
                      copied |-> (env.inBuffer.buf # "NULL" /\
                                  env.inBuffer.size = SamplesSize(IN_CHANNELS))]),
             "dataStream")
    ELSE w

\* lines 442-444
slaveReply(w, env) ==
    IF w.this.mode = "REAC_SLAVE" THEN getAndPushSamples(w, env) ELSE w

\* the slave's reply sent before the samples are delivered
deliver_replyFirst(w, env) ==
    IF isConnected(w) THEN deliverSamples(slaveReply(w, env), env) ELSE w

\* lines 421-445: sample delivery and the slave's reply
deliver(w, env) ==
    IF isConnected(w) THEN slaveReply(deliverSamples(w, env), env) ELSE w

\* the packet's time not saved
sawPacket_zero(w) == [w EXCEPT !.this.lastSeenConnectionCounter = 0]

\* lines 417-418
sawPacket(w) ==
    [w EXCEPT !.this.lastSeenConnectionCounter = w.this.connectionCounter]

\* line 447
saveCounter(w, counter) == [w EXCEPT !.this.lastCounter = counter]

\* the receive half without the return for a Master
filterCommandGateMsg_noBypass(w, frame, env) ==
    IF InPacketLen # frame.len
    THEN Emit(w, [e |-> "IOLog", msg |-> "Got packet of invalid length"])
    ELSE IF frame.ending # "ENDING"
    THEN Emit(w, [e |-> "IOLog", msg |-> "Incorrect packet ending"])
    ELSE
    saveCounter(deliver(sawPacket(announceConnect(checkCounter(w, frame.counter))), env),
                frame.counter)

\* the receive half without the check of the packet ending
filterCommandGateMsg_noEndingCheck(w, frame, env) ==
    IF w.this.mode = "REAC_MASTER" THEN w
    ELSE IF InPacketLen # frame.len
    THEN Emit(w, [e |-> "IOLog", msg |-> "Got packet of invalid length"])
    ELSE
    saveCounter(deliver(sawPacket(announceConnect(checkCounter(w, frame.counter))), env),
                frame.counter)

\* frame: the mbuf handed over by the filter; env: as for pushSamples, and inBuffer:
\* what samplesCallback returns
filterCommandGateMsg(w, frame, env) ==
    IF w.this.mode = "REAC_MASTER" THEN w
    ELSE IF InPacketLen # frame.len
    THEN Emit(w, [e |-> "IOLog", msg |-> "Got packet of invalid length"])
    ELSE IF frame.ending # "ENDING"
    THEN Emit(w, [e |-> "IOLog", msg |-> "Incorrect packet ending"])
    ELSE
    saveCounter(deliver(sawPacket(announceConnect(checkCounter(w, frame.counter))), env),
                frame.counter)

\* the interface filter's input function
filterInputFunc(w, frame, env) ==
    IF frame.type # "PROTOCOL" THEN Return(w, 0)
    ELSE Return(filterCommandGateMsg(Use(w, "filterCommandGate"), frame, env),
                "EINPROGRESS")

-----------------------------------------------------------------------------
(* Observers *)

Sat(n) == IF n < MaxRun THEN n ELSE MaxRun

\* the connection callbacks among the calls ev, in order
ConnectionCalls(ev) == SelectSeq(ev, LAMBDA x : x.e = "connectionCallback")

CountCalls(ev, device) ==
    Len(SelectSeq(ConnectionCalls(ev), LAMBDA x : x.arg = device))

Transmitted(ev) == SelectSeq(ev, LAMBDA x : x.e = "ifnet_output_raw")

CallbacksIn(ev) ==
    SelectSeq(ev, LAMBDA x : x.e \in {"connectionCallback", "samplesCallback",
                                      "getSamplesCallback"})

\* a frame the receive half's validation accepts
FrameValid(frame) ==
    frame.type = "PROTOCOL" /\ frame.len = InPacketLen /\ frame.ending = "ENDING"

NoFrame == [type |-> "none", len |-> 0, ending |-> "none", counter |-> 0]

HistInit ==
    [ lastConn |-> "none",   \* the identity handed to the latest connection callback
      edges |-> TRUE,        \* every connection callback so far reported an edge
      idleNull |-> 0,        \* NULL callbacks of the scheduler since the last valid packet
      timedOut |-> FALSE,    \* a firing since the last valid packet found the idle
                             \* time over the threshold
      validSeen |-> FALSE,   \* a valid packet came since the engine was last Disconnected
      connectRun |-> 0,      \* connect callbacks since the engine was last Disconnected
      sincePacket |-> -1 ]   \* firings since the latest valid packet; -1 before the first

RECURSIVE FoldEdges(_, _)
FoldEdges(h, calls) ==
    IF calls = <<>> THEN h
    ELSE LET c == Head(calls).arg
             ok == IF h.lastConn = "none" THEN c = "deviceInfo" ELSE c # h.lastConn
         IN  FoldEdges([h EXCEPT !.lastConn = c, !.edges = @ /\ ok], Tail(calls))

Observe(h, pre, w, op, frame) ==
    LET valid == op = "filterInputFunc" /\ FrameValid(frame)
        firing == op = "timerFired"
        dropped == pre.connected /\ ~w.this.connected
        h1 == FoldEdges(h, ConnectionCalls(w.ev))
    IN  [h1 EXCEPT
          !.idleNull = IF valid THEN 0
                       ELSE IF firing THEN Sat(@ + CountCalls(w.ev, "NULL"))
                       ELSE @,
          !.timedOut = IF valid THEN FALSE
                       ELSE IF firing /\ pre.connected /\ IdleTooLong(pre) THEN TRUE
                       ELSE @,
          !.validSeen = IF dropped THEN FALSE ELSE IF valid THEN TRUE ELSE @,
          !.connectRun = IF dropped THEN 0
                         ELSE Sat(@ + CountCalls(w.ev, "deviceInfo")),
          !.sincePacket = IF valid THEN 0
                          ELSE IF firing /\ @ >= 0 THEN Sat(@ + 1)
                          ELSE @ ]

-----------------------------------------------------------------------------
(* The state machine *)

\* where each thread that enters the engine stands, who holds the work loop's
\* gate, and the frame the filter was handed: no entry point is under way
RunIdle ==
    [ client |-> "idle", timer |-> "idle", filter |-> "idle", gate |-> "free",
      frame |-> NoFrame ]

Init ==
    /\ this = ZeroObject
    /\ kern = KernInit
    /\ last = [op |-> "new", frame |-> NoFrame, ev |-> <<>>, ret |-> TRUE]
    /\ hist = HistInit
    /\ run = RunIdle

\* The clock counts from an origin nothing depends on: the code compares and
\* stores sums and differences of clock readings only.  States that differ by a
\* shift of the origin are one state here: every step leaves the origin at the
\* present, so that nextTime and timerDeadline read as times from now.
Rebase(w) ==
    LET now == w.kern.uptime
    IN  [w EXCEPT !.kern.uptime = 0,
                  !.kern.timerDeadline = IF w.kern.timerArmed THEN @ - now ELSE 0,
                  !.this.nextTime = IF w.this.timerEventSource THEN @ - now ELSE 0]

\* the entry point op, with input frame, took the engine to world w
Commit(v, op, frame) ==
    LET w == Rebase(v) IN
    /\ this' = w.this
    /\ kern' = w.kern
    /\ last' = [op |-> op, frame |-> frame, ev |-> w.ev, ret |-> w.ret]
    /\ hist' = Observe(hist, this, w, op, frame)
    /\ run' = run

\* the engines constructed: either role, with its three callbacks or with none
InitArgs ==
    { [ mode |-> m, connectionCallback |-> c, samplesCallback |-> c,
        getSamplesCallback |-> c ] : m \in Modes, c \in BOOLEAN }

\* the calls of pushSamples made to fail here: they all end at Done alike
ExploredFaults == {"none", "mbuf_allocpacket", "ifnet_output_raw"}

\* the environment of a handler that reaches neither callback nor send
NoEnv ==
    [ samples |-> [buf |-> "NULL", size |-> 0], rph |-> [counter |-> 0],
      fault |-> "none", inBuffer |-> [buf |-> "NULL", size |-> 0] ]

\* the environments explored differ from NoEnv in one of their four parts: the
\* parts are read at different places of the code (inBuffer by the delivery,
\* samples, rph and fault by pushSamples)
Envs ==
    { e \in [ samples : GetSamplesResults, rph : OutHeaders, fault : ExploredFaults,
              inBuffer : SamplesResults ] :
        Cardinality({ f \in {"samples", "rph", "fault", "inBuffer"} : e[f] # NoEnv[f] })
            <= 1 }

\* the environments of a handler that sends without receiving
SendEnvs == { e \in Envs : e.inBuffer = NoEnv.inBuffer }

\* the sequence numbers of the inbound packets
InCounters == {0, 1, 7, 65535}

\* the frames the interface hands to the filter: another protocol's, a REAC frame
\* of a wrong length, one with a wrong ending, and well-formed ones
InFrames ==
    { [type |-> "other", len |-> InPacketLen, ending |-> "ENDING", counter |-> 0],
      [type |-> "PROTOCOL", len |-> InPacketLen - 1, ending |-> "ENDING", counter |-> 1],
      [type |-> "PROTOCOL", len |-> InPacketLen + SizeofEthernetHeader,
       ending |-> "ENDING", counter |-> 1],
      [type |-> "PROTOCOL", len |-> InPacketLen, ending |-> "other", counter |-> 1] }
    \cup { [type |-> "PROTOCOL", len |-> InPacketLen, ending |-> "ENDING", counter |-> c] :
             c \in InCounters }

\* how late a scheduler firing can be: on time, a little late, more than a period late
Lateness(period) == {0, Jitter, period + Jitter}

Construct ==
    /\ kern.life = "new"
    /\ \E args \in InitArgs, failAt \in {"none", "new"} \cup InitFailures :
          Commit(withInterface(World(this, kern), args, failAt), "withInterface", NoFrame)

Start ==
    /\ kern.life = "alive"
    /\ kern.nextRef <= MaxStarts
    /\ \E fault \in {"none", "addEventSource", "iflt_attach"} :
          Commit(start(World(this, kern), fault = "addEventSource", fault = "iflt_attach"),
                 "start", NoFrame)

Stop ==
    /\ kern.life = "alive"
    /\ Commit(Return(stop(World(this, kern)), TRUE), "stop", NoFrame)

Free ==
    /\ kern.life = "alive"
    /\ Commit(Return(free(World(this, kern)), TRUE), "free", NoFrame)

\* when the armed timer fires: at its deadline or later.  A timer armed with a
\* wrapped interval has, where the kernel's sum of clock and interval wraps as
\* well, a deadline that has passed already and fires at once or a little late;
\* where the sum does not wrap, it does not fire at all.
FireTimes(t, k) ==
    IF k.timerWrapped THEN {0, Jitter}
    ELSE { k.timerDeadline + late : late \in Lateness(t.timeoutNS) }

TimerFire ==
    /\ kern.life = "alive"
    /\ kern.timerAdded /\ kern.timerArmed
    /\ \E now \in FireTimes(this, kern),
          env \in (IF this.mode = "REAC_MASTER" THEN SendEnvs ELSE {NoEnv}) :
          /\ this.connectionCounter < MaxFirings
          /\ Commit(timerFired(World(this, [kern EXCEPT !.uptime = now,
                                                        !.timerArmed = FALSE]), env),
                    "timerFired", NoFrame)

Inbound ==
    /\ kern.life = "alive"
    /\ kern.filters # {}
    /\ \E frame \in InFrames :
       \E env \in (IF this.mode = "REAC_SLAVE" /\ FrameValid(frame) THEN Envs ELSE {NoEnv}) :
          Commit(filterInputFunc(World(this, kern), frame, env), "filterInputFunc", frame)

Next == Construct \/ Start \/ Stop \/ Free \/ TimerFire \/ Inbound

Spec == Init /\ [][Next]_vars

-----------------------------------------------------------------------------
(* Properties *)

ValidInbound(l) == l.op = "filterInputFunc" /\ FrameValid(l.frame)

MalformedInbound(l) ==
    l.op = "filterInputFunc" /\ l.frame.type = "PROTOCOL" /\ ~FrameValid(l.frame)

\* C1: while no valid packet arrives, the scheduler announces the disconnect (the
\* connection callback with NULL) exactly once: not before a firing finds the idle
\* time over the threshold, once at that firing, and never again after it.
C1_DisconnectAnnouncedOnce ==
    this.connectionCallback =>
        hist.idleNull = (IF hist.timedOut THEN 1 ELSE 0)

\* C2: once a firing has found the idle time over the threshold, isConnected() is
\* false until the next valid packet.
C2_DisconnectedAfterTimeout == hist.timedOut => ~this.connected

\* C3, as stated: in either role, once a valid packet has come to a Disconnected
\* engine, the connect was announced exactly once, however many packets followed.
C3_ConnectAnnouncedOnce ==
    (this.connectionCallback /\ hist.validSeen) => hist.connectRun = 1

\* C3, amended: a Slave announces the connect exactly once over a run of valid
\* packets, at the first of them; a Master announces none.
C3_SlaveConnectAnnouncedOnce ==
    (this.connectionCallback /\ hist.validSeen) =>
        hist.connectRun = (IF this.mode = "REAC_SLAVE" THEN 1 ELSE 0)

\* a Slave has taken a later packet of a run: no announcement for it, one for the run
C3_Witness ==
    /\ this.mode = "REAC_SLAVE" /\ this.connectionCallback
    /\ ValidInbound(last)
    /\ CountCalls(last.ev, "deviceInfo") = 0
    /\ hist.connectRun = 1

\* C4: the connection callbacks report edges only: connect and disconnect
\* alternate, a connect first.
C4_CallbacksAlternate == hist.edges

\* C5, as stated: in either role, a valid packet leaves the engine Connected, the
\* connect announced.
C5_ValidPacketConnects ==
    ValidInbound(last) =>
        this.connected /\ (this.connectionCallback => hist.connectRun >= 1)

\* C5, amended: a valid packet that reaches a Disconnected Slave leaves it
\* Connected and is announced with the device identity; one that reaches a Master
\* leaves it Disconnected and is not announced.
C5_ValidPacketConnectsSlave ==
    [][ (ValidInbound(last') /\ ~this.connected) =>
          IF this.mode = "REAC_SLAVE"
          THEN /\ this'.connected
               /\ this.connectionCallback =>
                     ConnectionCalls(last'.ev)
                         = <<[e |-> "connectionCallback", arg |-> "deviceInfo"]>>
          ELSE /\ ~this'.connected
               /\ ConnectionCalls(last'.ev) = <<>> ]_vars

\* the first packet has just connected a Slave
C5_Witness ==
    /\ this.mode = "REAC_SLAVE" /\ this.connectionCallback
    /\ ValidInbound(last)
    /\ CountCalls(last.ev, "deviceInfo") = 1
    /\ this.connected

\* C6: a REAC frame of a wrong length or with a wrong ending changes none of
\* connected, lastCounter, lastSeenConnectionCounter, connectionCounter, reaches
\* no callback and sends no frame.
C6_MalformedFrameDropped ==
    [][ MalformedInbound(last') =>
          /\ this'.connected = this.connected
          /\ this'.lastCounter = this.lastCounter
          /\ this'.lastSeenConnectionCounter = this.lastSeenConnectionCounter
          /\ this'.connectionCounter = this.connectionCounter
          /\ CallbacksIn(last'.ev) = <<>>
          /\ Transmitted(last'.ev) = <<>> ]_vars

\* a frame with a wrong ending came to a connected Slave that a valid frame would
\* have changed
C6_Witness ==
    /\ MalformedInbound(last) /\ last.frame.len = InPacketLen
    /\ this.mode = "REAC_SLAVE" /\ this.connected /\ this.samplesCallback
    /\ this.lastCounter # last.frame.counter
    /\ this.lastSeenConnectionCounter # this.connectionCounter

\* C7: stop() on a started engine announces the disconnect once if the engine is
\* connected and not otherwise; stop() on an engine that is not started (never
\* started, or stopped already) calls nothing and releases nothing.
C7_StopIdempotent ==
    [][ last'.op = "stop" =>
          /\ last'.ev =
                (IF this.started /\ this.connected /\ this.connectionCallback
                 THEN <<[e |-> "connectionCallback", arg |-> "NULL"]>>
                 ELSE <<>>)
          /\ ~this.started => (this' = this /\ kern' = kern)
          /\ ~this'.started
          /\ ~kern'.staleDetach ]_vars

\* a stop() of a connected engine, already stopped, that called nothing
C7_Witness ==
    /\ last.op = "stop" /\ last.ev = <<>>
    /\ this.connected /\ this.connectionCallback
    /\ hist.lastConn = "NULL"
    /\ kern.nextRef > 1 /\ kern.filters = {} /\ ~kern.timerArmed

\* C8: after stop() no timer is armed and no filter is installed.
C8_StopLeavesNothing ==
    last.op = "stop" => (~kern.timerArmed /\ kern.filters = {})

\* C9: a start() that fails leaves the timer not armed, the timer source off the
\* work loop and no filter installed.
C9_FailedStartReleases ==
    (last.op = "start" /\ last.ret = FALSE /\ ~this.started) =>
        (~kern.timerArmed /\ ~kern.timerAdded /\ kern.filters = {})

\* C10: no resource is released more often than acquired or used after its
\* release, and once the engine is gone every resource it acquired is released.
C10_ReleasedExactlyOnce ==
    /\ \A r \in Resources : kern.rel[r] <= kern.acq[r]
    /\ kern.uar = {}
    /\ kern.life \in {"freed", "null"} =>
          \A r \in Resources : kern.rel[r] = kern.acq[r]

-----------------------------------------------------------------------------
(* The send half's contract *)

\* the calls of getSamplesCallback among the calls ev, in order
NeededCalls(ev) == SelectSeq(ev, LAMBDA x : x.e = "getSamplesCallback")

\* the failures pushSamples logs before it gives a send up
SendFailures(ev) ==
    SelectSeq(ev, LAMBDA x : x.e = "IOLog" /\
        x.msg \in {"Failed to process packet data stream",
                   "Failed to allocate packet mbuf",
                   "Failed to copy REAC header to packet mbuf",
                   "Failed to copy sample data to packet mbuf",
                   "Failed to zero sample data in mbuf",
                   "Failed to send packet"})

\* C11: getSamplesCallback is called once for an outbound packet, and where no
\* call of the send fails its result decides the sample block: a buffer of
\* SamplesSize(OUT_CHANNELS) bytes is transmitted as the frame's sample block, no
\* buffer gives a transmitted frame of zeros, and a buffer of another size is in
\* no transmitted frame.
C11_SamplesDecideFrame ==
    LET needed == NeededCalls(last.ev)
        sent == Transmitted(last.ev)
        exact == SamplesSize(OUT_CHANNELS)
    IN  /\ (this.getSamplesCallback /\ sent # <<>>) =>
              (Len(needed) = 1 /\ Len(sent) = 1)
        /\ (needed # <<>> /\ SendFailures(last.ev) = <<>>) =>
              IF needed[1].buf = "NULL"
              THEN Len(sent) = 1 /\
                   sent[1].frame.samples = [from |-> "zero", size |-> exact]
              ELSE IF needed[1].size = exact
              THEN Len(sent) = 1 /\
                   sent[1].frame.samples = [from |-> "buffer", size |-> exact]
              ELSE \A i \in DOMAIN sent : sent[i].frame.samples.from # "buffer"

-----------------------------------------------------------------------------
(* The receive half's contract *)

\* the lost-packet diagnostics among the calls ev
GapsFlagged(ev) == SelectSeq(ev, LAMBDA x : x.e = "IOLog" /\ x.msg = "Lost packet")

\* the names of the callbacks among the calls ev, in order
CallbackNames(ev) == [i \in DOMAIN CallbacksIn(ev) |-> CallbacksIn(ev)[i].e]

\* C12: a valid packet with counter r that finds lastCounter = s is flagged as a
\* gap exactly when the engine is connected and r # (s + 1) mod 65536, and is
\* flagged once; a flagged packet is processed as any other: the engine stays
\* connected, lastCounter becomes r, lastSeenConnectionCounter becomes
\* connectionCounter, the samples are delivered and the reply is attempted.
C12_GapFlagged ==
    [][ ValidInbound(last') =>
          /\ (GapsFlagged(last'.ev) # <<>>) <=>
                (this.connected /\
                 last'.frame.counter # (this.lastCounter + 1) % 65536)
          /\ Len(GapsFlagged(last'.ev)) <= 1
          /\ GapsFlagged(last'.ev) # <<>> =>
                /\ this'.connected
                /\ this'.lastCounter = last'.frame.counter
                /\ this'.connectionCounter = this.connectionCounter
                /\ this'.lastSeenConnectionCounter = this.connectionCounter
                /\ CallbackNames(last'.ev) =
                      (IF this.samplesCallback
                       THEN <<"samplesCallback", "getSamplesCallback">>
                       ELSE <<>>) ]_vars

\* a connected Slave has taken packet 7 after another packet than 6: flagged as
\* a gap, processed, still connected
C12_Witness ==
    /\ ValidInbound(last) /\ last.frame.counter = 7
    /\ GapsFlagged(last.ev) # <<>>
    /\ this.connected /\ this.lastCounter = 7
    /\ this.samplesCallback /\ Len(NeededCalls(last.ev)) = 1

-----------------------------------------------------------------------------
(* The frame on the wire *)

\* the frame handed to ifnet_output_raw as the peer's interface filter gets it:
\* the Ethernet header apart (frame_ptr), the mbuf holding what follows it
OnWire(frame) ==
    [ type |-> frame.type,
      len |-> frame.len - SizeofEthernetHeader,
      ending |-> frame.ending,
      counter |-> frame.header.counter,
      samples |-> frame.samples ]

\* the length and ending checks of the receive half, for a device of the given
\* number of channels
AcceptedFor(channels, mbuf) ==
    /\ mbuf.type = "PROTOCOL"
    /\ SizeofREACPacketHeader + SamplesSize(channels) + 2 = mbuf.len
    /\ mbuf.ending = "ENDING"

\* the sample block the send half is to encode for what getSamplesCallback gave
EncodedSamples(given) ==
    IF given.buf = "NULL" THEN [from |-> "zero", size |-> SamplesSize(OUT_CHANNELS)]
    ELSE [from |-> given.buf, size |-> given.size]

\* C13: a send from a header and a sample buffer (none, or one of the packet's
\* size) in which no call fails builds one frame; that frame passes the receive
\* half's length and ending checks for the same number of channels, and the
\* counter and the sample block read from it are the ones encoded.
C13_RoundTrip ==
    LET needed == NeededCalls(last.ev)
        sent == Transmitted(last.ev)
    IN  ( /\ needed # <<>>
          /\ SendFailures(last.ev) = <<>>
          /\ needed[1].buf # "NULL" => needed[1].size = SamplesSize(OUT_CHANNELS) )
        => /\ Len(sent) = 1
           /\ AcceptedFor(OUT_CHANNELS, OnWire(sent[1].frame))
           /\ OnWire(sent[1].frame).counter = sent[1].frame.header.counter
           /\ OnWire(sent[1].frame).samples = EncodedSamples(needed[1])

-----------------------------------------------------------------------------
(* The scheduler's contract *)

\* C14: a firing at the time now, whatever it is, advances the scheduled
\* deadline nextTime by the period and re-arms the timer with the interval
\* timeoutNS + (nextTime - now), so that the timer is armed for the new nextTime:
\* the deadlines stay at the start's clock reading plus whole periods.  (Times
\* are read from the origin of each state: kern.timerDeadline' and this.nextTime'
\* are distances from now.)
C14_DriftCorrected ==
    [][ last'.op = "timerFired" =>
          \E now \in FireTimes(this, kern) :
              /\ this'.nextTime = this.nextTime + this.timeoutNS - now
              /\ kern'.timerArmed /\ ~kern'.timerWrapped
              /\ kern'.timerDeadline = this.timeoutNS + (this.nextTime - now)
              /\ kern'.timerDeadline = this'.nextTime ]_vars

\* the calls of samplesCallback among the calls ev, in order
ReceivedCalls(ev) == SelectSeq(ev, LAMBDA x : x.e = "samplesCallback")

\* C15: a valid packet that finds isConnected() false is used for the connect
\* alone: handling it calls neither samplesCallback nor getSamplesCallback and
\* transmits no frame.
C15_ConnectEdgeOnly ==
    [][ (ValidInbound(last') /\ ~this.connected) =>
          /\ ReceivedCalls(last'.ev) = <<>>
          /\ NeededCalls(last'.ev) = <<>>
          /\ Transmitted(last'.ev) = <<>> ]_vars

\* the sample callbacks and the transmissions among the calls ev, by name, in order
DataPlane(ev) ==
    LET calls == SelectSeq(ev, LAMBDA x : x.e \in {"samplesCallback",
                                                  "getSamplesCallback",
                                                  "ifnet_output_raw"})
    IN  [i \in DOMAIN calls |-> calls[i].e]

\* a send was attempted among the calls ev
SendAttempted(ev) ==
    NeededCalls(ev) # <<>> \/ Transmitted(ev) # <<>> \/ SendFailures(ev) # <<>>

\* C16: a connected Slave with its callbacks registered handles a valid packet
\* by one call of samplesCallback, then one send attempt: one call of
\* getSamplesCallback and after it at most one transmitted frame; and no firing
\* of the scheduler makes a Slave attempt a send.
C16_SlaveRepliesPerPacket ==
    [][ /\ ( /\ ValidInbound(last') /\ this.mode = "REAC_SLAVE" /\ this.connected
             /\ this.samplesCallback /\ this.getSamplesCallback )
           => \/ DataPlane(last'.ev) = <<"samplesCallback", "getSamplesCallback">>
              \/ DataPlane(last'.ev) = <<"samplesCallback", "getSamplesCallback",
                                         "ifnet_output_raw">>
        /\ (last'.op = "timerFired" /\ this.mode = "REAC_SLAVE")
           => ~SendAttempted(last'.ev) ]_vars

\* a connected Slave has taken a packet: samples delivered, then the reply sent
C16_Witness ==
    /\ ValidInbound(last) /\ this.mode = "REAC_SLAVE"
    /\ this.connectionCallback /\ ConnectionCalls(last.ev) = <<>>
    /\ DataPlane(last.ev) = <<"samplesCallback", "getSamplesCallback",
                              "ifnet_output_raw">>

\* C17: a Master handles a REAC frame, valid or malformed, without a change to
\* connected, connectionCounter, lastSeenConnectionCounter or lastCounter and
\* without a call: no callback, no log, no frame transmitted.  A Master attempts
\* a send at every firing of the scheduler and in no other entry point.
C17_MasterBypassesReceive ==
    [][ this.mode = "REAC_MASTER" =>
          /\ (last'.op = "filterInputFunc" /\ last'.frame.type = "PROTOCOL") =>
                /\ this'.connected = this.connected
                /\ this'.connectionCounter = this.connectionCounter
                /\ this'.lastSeenConnectionCounter = this.lastSeenConnectionCounter
                /\ this'.lastCounter = this.lastCounter
                /\ last'.ev = <<>>
          /\ SendAttempted(last'.ev) <=> (last'.op = "timerFired") ]_vars

\* a started Master has been handed a valid packet it would answer as a Slave
C17_Witness ==
    /\ ValidInbound(last) /\ this.mode = "REAC_MASTER"
    /\ this.started /\ this.samplesCallback
    /\ last.frame.counter # this.lastCounter
    /\ last.ev = <<>> /\ ~this.connected

\* C18, as stated: lastSeenConnectionCounter <= connectionCounter in every
\* state; a firing adds one to connectionCounter if the engine is connected and
\* nothing if it is not; a valid packet leaves lastSeenConnectionCounter equal to
\* connectionCounter; and connectionCounter - lastSeenConnectionCounter is the
\* number of firings since the latest valid packet (counted up to MaxRun).
C18_TicksCountFirings ==
    [][ /\ this'.lastSeenConnectionCounter <= this'.connectionCounter
        /\ last'.op = "timerFired" =>
              this'.connectionCounter =
                  this.connectionCounter + (IF this.connected THEN 1 ELSE 0)
        /\ ValidInbound(last') =>
              this'.lastSeenConnectionCounter = this'.connectionCounter
        /\ hist'.sincePacket \in 0 .. (MaxRun - 1) =>
              this'.connectionCounter - this'.lastSeenConnectionCounter
                  = hist'.sincePacket ]_vars

\* C18, amended: as above, the last part for a connected engine: there
\* connectionCounter - lastSeenConnectionCounter is the number of firings since
\* the latest valid packet; in an engine that is not connected (a Master always,
\* which ignores the packet) the firings are not counted and the difference is 0.
C18_TicksCountConnectedFirings ==
    [][ /\ this'.lastSeenConnectionCounter <= this'.connectionCounter
        /\ last'.op = "timerFired" =>
              this'.connectionCounter =
                  this.connectionCounter + (IF this.connected THEN 1 ELSE 0)
        /\ ValidInbound(last') =>
              this'.lastSeenConnectionCounter = this'.connectionCounter
        /\ hist'.sincePacket \in 0 .. (MaxRun - 1) =>
              this'.connectionCounter - this'.lastSeenConnectionCounter
                  = (IF this'.connected THEN hist'.sincePacket ELSE 0) ]_vars

\* a connected Slave's scheduler has fired once since the latest valid packet
C18_Witness ==
    /\ last.op = "timerFired" /\ this.mode = "REAC_SLAVE" /\ this.connected
    /\ hist.sincePacket = 1
    /\ this.lastSeenConnectionCounter > 0
    /\ this.connectionCounter = this.lastSeenConnectionCounter + 1

-----------------------------------------------------------------------------
(* The entry points as threads *)

\* SpecThreads runs the entry points of a constructed engine step by step, each
\* on the thread that calls it: start() and stop() on the client's thread,
\* timerFired on the work loop's thread with the work loop's gate closed (it is
\* the action of an IOTimerEventSource), filterInputFunc on the network's input
\* thread, which closes the same gate in runCommand for filterCommandGateMsg.
\* start() and stop() close no gate of their own; addEventSource and
\* removeEventSource take it for the length of the call.

\* the engines SpecThreads starts from
ThreadArgs == { a \in InitArgs : a.connectionCallback }

\* the frames handed to the filter there
ThreadFrames == { f \in InFrames : FrameValid(f) /\ f.counter \in {0, 1} }

\* one step of an entry point took the engine to world w and the threads to next
Step(w, op, next) ==
    /\ this' = w.this
    /\ kern' = w.kern
    /\ last' = [op |-> op, frame |-> next.frame, ev |-> w.ev, ret |-> TRUE]
    /\ hist' = hist
    /\ run' = next

ThreadsInit ==
    /\ \E args \in ThreadArgs :
          LET w == withInterface(World(ZeroObject, KernInit), args, "none")
          IN  this = w.this /\ kern = w.kern
    /\ last = [op |-> "withInterface", frame |-> NoFrame, ev |-> <<>>, ret |-> TRUE]
    /\ hist = HistInit
    /\ run = RunIdle

\* start(), line 163: the timer source added to the work loop
StartAdd ==
    /\ kern.life = "alive" /\ run.client = "idle" /\ run.gate = "free"
    /\ ~this.started /\ kern.nextRef <= MaxStarts
    /\ Step(addTimerEventSource(World(this, kern)), "start",
            [run EXCEPT !.client = "armTimer"])

\* start(), lines 169-174
StartArm ==
    /\ run.client = "armTimer"
    /\ Step(armTimer(World(this, kern)), "start", [run EXCEPT !.client = "attachFilter"])

\* start(), lines 176-192
StartAttach ==
    /\ run.client = "attachFilter"
    /\ Step(attachFilter(World(this, kern)), "start", [run EXCEPT !.client = "idle"])

\* stop(), lines 196-200
StopTimer ==
    /\ kern.life = "alive" /\ run.client = "idle" /\ run.gate = "free"
    /\ this.started
    /\ Step(stopTimer(World(this, kern)), "stop",
            [run EXCEPT !.client = "announceDisconnect"])

\* stop(), lines 202-207
StopAnnounce ==
    /\ run.client = "announceDisconnect"
    /\ Step(announceDisconnect(World(this, kern)), "stop",
            [run EXCEPT !.client = "detachFilter"])

\* stop(), lines 209-210
StopDetach ==
    /\ run.client = "detachFilter"
    /\ Step(detachFilter(World(this, kern)), "stop", [run EXCEPT !.client = "idle"])

\* the timer fires at its deadline: timerFired under the gate, lines 226-236
TimerWatchdog ==
    /\ run.timer = "idle" /\ run.gate = "free"
    /\ kern.timerAdded /\ kern.timerArmed /\ ~kern.timerWrapped
    /\ this.connectionCounter < MaxFirings
    /\ Step(watchdog(World(this, [kern EXCEPT !.uptime = kern.timerDeadline,
                                              !.timerArmed = FALSE])),
            "timerFired", [run EXCEPT !.timer = "masterSend", !.gate = "timer"])

\* timerFired, lines 238-240
TimerSend ==
    /\ run.timer = "masterSend"
    /\ Step(masterSend(World(this, kern), NoEnv), "timerFired",
            [run EXCEPT !.timer = "rearm"])

\* timerFired, lines 242-251, and the gate opened
TimerRearm ==
    /\ run.timer = "rearm"
    /\ Step(Rebase(rearm(World(this, kern))), "timerFired",
            [run EXCEPT !.timer = "idle", !.gate = "free"])

\* filterInputFunc, lines 456-464: a REAC frame, up to runCommand
FilterCall ==
    /\ run.filter = "idle" /\ kern.filters # {}
    /\ \E frame \in ThreadFrames :
          Step(Use(World(this, kern), "filterCommandGate"), "filterInputFunc",
               [run EXCEPT !.filter = "runCommand", !.frame = frame])

\* runCommand closes the gate; filterCommandGateMsg, lines 357-407: a Master
\* returns, a Slave checks the frame and its counter
FilterCheck ==
    /\ run.filter = "runCommand" /\ run.gate = "free"
    /\ IF this.mode = "REAC_MASTER"
       THEN Step(World(this, kern), "filterInputFunc",
                 [run EXCEPT !.filter = "idle", !.frame = NoFrame])
       ELSE Step(checkCounter(World(this, kern), run.frame.counter), "filterInputFunc",
                 [run EXCEPT !.filter = "announceConnect", !.gate = "filter"])

\* filterCommandGateMsg, lines 409-415
FilterAnnounce ==
    /\ run.filter = "announceConnect"
    /\ Step(announceConnect(World(this, kern)), "filterInputFunc",
            [run EXCEPT !.filter = "deliver"])

\* filterCommandGateMsg, lines 417-445
FilterDeliver ==
    /\ run.filter = "deliver"
    /\ Step(deliver(sawPacket(World(this, kern)), NoEnv), "filterInputFunc",
            [run EXCEPT !.filter = "saveCounter"])

\* filterCommandGateMsg, line 447, and the gate opened
FilterSave ==
    /\ run.filter = "saveCounter"
    /\ Step(saveCounter(World(this, kern), run.frame.counter), "filterInputFunc",
            [run EXCEPT !.filter = "idle", !.gate = "free", !.frame = NoFrame])

ThreadsNext ==
    \/ StartAdd \/ StartArm \/ StartAttach
    \/ StopTimer \/ StopAnnounce \/ StopDetach
    \/ TimerWatchdog \/ TimerSend \/ TimerRearm
    \/ FilterCall \/ FilterCheck \/ FilterAnnounce \/ FilterDeliver \/ FilterSave

SpecThreads == ThreadsInit /\ [][ThreadsNext]_vars

\* the threads that are part-way through an entry point's work on the engine
Executing ==
    { t \in {"client", "timer", "filter"} :
        IF t = "filter" THEN run.filter \notin {"idle", "runCommand"}
        ELSE run[t] # "idle" }

\* C19: at most one of start(), stop(), timerFired and the inbound-frame handler
\* is part-way through at a time.
C19_EntryPointsSerialized == Cardinality(Executing) <= 1

-----------------------------------------------------------------------------
(* The re-arm interval *)

\* C20: the interval timerFired hands to setTimeout, timeoutNS + (nextTime - now)
\* taken as an unsigned value, is the sum itself, from 0 to twice the period, and
\* not the sum wrapped round 2^64.  (After timerFired the timer's deadline, read
\* from now, is that interval.)
C20_RearmIntervalInRange ==
    last.op = "timerFired" =>
        /\ ~kern.timerWrapped
        /\ kern.timerDeadline >= 0
        /\ kern.timerDeadline <= 2 * this.timeoutNS

====
